---- MODULE Spec2Model ----
(***************************************************************************)
(* ResponseHandler of msal-common                                          *)
(* (src/lib/msal-common/src/response/ResponseHandler.ts).                  *)
(*                                                                         *)
(* Spec         one handleServerTokenResponse call, split at its           *)
(*              suspension points and at its cache-store operations,       *)
(*              running against a cache store that another caller may      *)
(*              remove accounts from.                                      *)
(* SpecAuthCode validateServerAuthorizationCodeResponse applied to         *)
(*              bounded inputs.                                            *)
(* SpecTokenResponse  validateTokenResponse applied to token responses.    *)
(* SpecAssemble one call without persistence plugin, over responses that   *)
(*              vary in the fields generateCacheRecord and                 *)
(*              generateAuthenticationResult read.                         *)
(* SpecOverlap  several calls on one instance, interleaved at their        *)
(*              suspension points.                                         *)
(*                                                                         *)
(* Absent values: a JavaScript string that is undefined or "" is "" here   *)
(* (the code tests strings for truthiness only); an absent object is the   *)
(* empty tuple None and a present one is the one-element tuple Some(x).    *)
(* The persistence hooks and the signer complete normally (their           *)
(* interfaces return no error); the store write may fail.                  *)
(*                                                                         *)
(* The cache store is shared with other applications (lines 150-152) and   *)
(* the handler takes no lock on it, so a removal by another caller may     *)
(* fall between any two store operations of a call, the getAccount of      *)
(* line 156 and the saveCacheRecord of line 162 included.                  *)
(***************************************************************************)
EXTENDS Integers, Sequences, FiniteSets, TLC

VARIABLES
    persistencePlugin,      \* this.persistencePlugin is not null
    serializableCache,      \* this.serializableCache is not null
    homeAccountIdentifier,  \* this.homeAccountIdentifier
    args,                   \* the arguments of the handleServerTokenResponse call
    pc,                     \* position of the call
    idTokenObj,             \* local idTokenObj
    requestStateObj,        \* local requestStateObj
    cacheRecord,            \* local cacheRecord
    cacheContext,           \* local cacheContext is defined
    completion,             \* how the try block completed: normal, return null, throw
    outcome,                \* what the call gave its caller
    result,                 \* the AuthenticationResult returned, if any
    store,                  \* this.cacheStorage, shared with other callers
    removals,               \* accounts removed by the concurrent caller so far
    log,                    \* hook and store events, in the order they happened
    authCodeResponse,       \* serverResponseHash of validateServerAuthorizationCodeResponse
    authCodeCachedState,    \* its cachedState
    authCodeOutcome,        \* what that validation gave its caller
    tokenResponse,          \* serverResponse of validateTokenResponse
    tokenResponseOutcome,   \* what that validation gave its caller
    calls                   \* the overlapping calls on one instance, each with its locals

hvars == <<persistencePlugin, serializableCache, homeAccountIdentifier, args, pc,
           idTokenObj, requestStateObj, cacheRecord, cacheContext, completion,
           outcome, result, store, removals, log>>
avars == <<authCodeResponse, authCodeCachedState, authCodeOutcome>>
tvars == <<tokenResponse, tokenResponseOutcome>>
ovars == <<calls>>
vars == <<hvars, avars, tvars, ovars>>

----------------------------------------------------------------------------
(* Bounds *)

\* how many accounts the concurrent caller removes
MaxRemovals == 1
\* longest state string in a response given to
\* validateServerAuthorizationCodeResponse
MaxStateLen == 3
\* longest cached state given to it
MaxCachedStateLen == 3
\* largest expires_in and ext_expires_in of a token response, in seconds
MaxSeconds == 2
\* largest request timestamp and largest current time, in seconds
MaxTimestamp == 2
\* longest scope string of a token response
MaxScopeLen == 3
\* most scopes of a request
MaxRequestScopes == 2
\* how many handleServerTokenResponse calls overlap on one instance
NumCalls == 2

----------------------------------------------------------------------------
(* Values *)

None == << >>
Some(x) == <<x>>
IsSome(o) == o # << >>
Get(o) == o[1]

\* what a function that may throw gives: its value, or the error it throws
Ok(v) == [error |-> "", value |-> v]
Err(e) == [error |-> e, value |-> None]

EMPTY_STRING == ""
THE_FAMILY_ID == "1"
POP == "pop"
BEARER == "Bearer"
ADFS == "Adfs"
DEFAULT == "Default"
AAD == "AAD"
OIDC == "OIDC"

\* StringUtils.isEmpty
IsEmpty(s) == s = ""

\* The claims the token parser reads from a raw identity token. A claim the
\* token does not carry is "".
ExtractTokenClaims(rawToken) ==
    CASE rawToken = "idt.n1" -> [nonce |-> "n1", sub |-> "sub1", oid |-> "oid1", tid |-> "tid1"]
      [] rawToken = "idt.n2" -> [nonce |-> "n2", sub |-> "sub1", oid |-> "oid1", tid |-> "tid1"]
      [] OTHER               -> [nonce |-> "",   sub |-> "sub1", oid |-> "",     tid |-> "tid1"]

\* new AuthToken(rawToken, crypto)
AuthToken(rawToken) == [rawToken |-> rawToken, claims |-> ExtractTokenClaims(rawToken)]

\* buildClientInfo(client_info, crypto)
BuildClientInfo(clientInfo) ==
    IF clientInfo = "ci1" THEN [uid |-> "uid1", utid |-> "utid1"]
                          ELSE [uid |-> "", utid |-> ""]

\* AccountEntity.generateHomeAccountId: the sub claim for ADFS, uid.utid of
\* client_info when there is one, the sub claim otherwise.
GenerateHomeAccountId(clientInfo, authorityType, idTok) ==
    LET accountId == IF IsSome(idTok) THEN Get(idTok).claims.sub ELSE EMPTY_STRING
        info == BuildClientInfo(clientInfo)
    IN  IF authorityType = ADFS THEN <<accountId>>
        ELSE IF clientInfo # "" /\ info.uid # "" /\ info.utid # ""
             THEN <<info.uid, info.utid>>
             ELSE <<accountId>>

\* Authority.generateEnvironmentFromAuthority
GenerateEnvironmentFromAuthority(authority) == authority.hostname

\* A scope string is a sequence of characters, each a scope letter or the
\* space " ". SplitScopes cuts it at the spaces and drops the empty pieces;
\* a scope is the sequence of its letters.
RECURSIVE SplitFrom(_, _, _)
SplitFrom(str, i, word) ==
    IF i > Len(str) THEN (IF word = << >> THEN << >> ELSE <<word>>)
    ELSE IF str[i] = " "
         THEN (IF word = << >> THEN << >> ELSE <<word>>) \o SplitFrom(str, i + 1, << >>)
         ELSE SplitFrom(str, i + 1, Append(word, str[i]))

\* ScopeSet.fromString(scope)
ScopeSetFromString(scope) == SplitFrom(scope, 1, << >>)
\* new ScopeSet(requestScopes)
ScopeSetFromArray(scopes) == scopes
\* ScopeSet.asArray
AsArray(scopeSet) == scopeSet
\* ScopeSet.printScopes: the scopes joined by single spaces
RECURSIVE PrintScopes(_)
PrintScopes(scopeSet) ==
    IF scopeSet = << >> THEN << >>
    ELSE IF Len(scopeSet) = 1 THEN Head(scopeSet)
    ELSE Head(scopeSet) \o <<" ">> \o PrintScopes(Tail(scopeSet))

\* AccountEntity.generateAccountKey
GenerateAccountKey(account) == <<account.homeAccountId, account.environment, account.realm>>

\* AccountEntity.createAccount
CreateAccount(clientInfo, homeAccountId, authority, idToken, oboAssertion) ==
    [homeAccountId |-> homeAccountId,
     environment   |-> GenerateEnvironmentFromAuthority(authority),
     realm         |-> idToken.claims.tid,
     clientInfo    |-> clientInfo,
     generic       |-> FALSE,
     oboAssertion  |-> oboAssertion]

\* AccountEntity.createGenericAccount
CreateGenericAccount(authority, homeAccountId, idToken, oboAssertion) ==
    [homeAccountId |-> homeAccountId,
     environment   |-> GenerateEnvironmentFromAuthority(authority),
     realm         |-> idToken.claims.tid,
     clientInfo    |-> EMPTY_STRING,
     generic       |-> TRUE,
     oboAssertion  |-> oboAssertion]

\* ProtocolUtils.parseRequestState: a state string is absent (None) or the
\* pair of the request timestamp and the caller's own state.
ParseRequestState(cachedState) ==
    [libraryState |-> [ts |-> cachedState[1]], userRequestState |-> cachedState[2]]

\* this.clientId
ClientId == "client1"

----------------------------------------------------------------------------
(* generateAccountEntity, generateCacheRecord, generateAuthenticationResult *)

\* generateAccountEntity changed to ask for client_info before it looks at
\* the authority type
generateAccountEntity_ClientInfoFirst(homeId, serverTokenResponse, idToken, authority, oboAssertion) ==
    IF IsEmpty(serverTokenResponse.client_info) /\ authority.protocolMode = AAD
    THEN Err("ClientInfoEmptyError")
    ELSE IF authority.authorityType = ADFS
    THEN Ok(CreateGenericAccount(authority, homeId, idToken, oboAssertion))
    ELSE IF serverTokenResponse.client_info # ""
    THEN Ok(CreateAccount(serverTokenResponse.client_info, homeId, authority, idToken, oboAssertion))
    ELSE Ok(CreateGenericAccount(authority, homeId, idToken, oboAssertion))

\* ResponseHandler.generateAccountEntity; homeId is this.homeAccountIdentifier
generateAccountEntity(homeId, serverTokenResponse, idToken, authority, oboAssertion) ==
    IF authority.authorityType = ADFS
    THEN Ok(CreateGenericAccount(authority, homeId, idToken, oboAssertion))
    ELSE IF IsEmpty(serverTokenResponse.client_info) /\ authority.protocolMode = AAD
    THEN Err("ClientInfoEmptyError")
    ELSE IF serverTokenResponse.client_info # ""
    THEN Ok(CreateAccount(serverTokenResponse.client_info, homeId, authority, idToken, oboAssertion))
    ELSE Ok(CreateGenericAccount(authority, homeId, idToken, oboAssertion))

\* the identity-token record and the account of generateCacheRecord
CachedIdToken(homeId, env, serverTokenResponse, idTok, oboAssertion) ==
    IF ~IsEmpty(serverTokenResponse.id_token) /\ IsSome(idTok)
    THEN Some([homeAccountId |-> homeId,
               environment   |-> env,
               secret        |-> serverTokenResponse.id_token,
               clientId      |-> ClientId,
               realm         |-> Get(idTok).claims.tid,
               oboAssertion  |-> oboAssertion])
    ELSE None

\* CachedAccessToken changed to count the lifetime from the current time
\* always
CachedAccessToken_CurrentTime(homeId, env, serverTokenResponse, authority, idTok, libraryState, requestScopes, oboAssertion, now) ==
    IF ~IsEmpty(serverTokenResponse.access_token)
    THEN LET responseScopes == IF serverTokenResponse.scope # << >>
                               THEN ScopeSetFromString(serverTokenResponse.scope)
                               ELSE ScopeSetFromArray(requestScopes)
             timestamp == now
             tokenExpirationSeconds == timestamp + serverTokenResponse.expires_in
             extendedTokenExpirationSeconds ==
                 tokenExpirationSeconds + serverTokenResponse.ext_expires_in
         IN  Some([homeAccountId     |-> homeId,
                   environment       |-> env,
                   secret            |-> serverTokenResponse.access_token,
                   clientId          |-> ClientId,
                   realm             |-> IF IsSome(idTok) THEN Get(idTok).claims.tid
                                                          ELSE authority.tenant,
                   target            |-> PrintScopes(responseScopes),
                   expiresOn         |-> tokenExpirationSeconds,
                   extendedExpiresOn |-> extendedTokenExpirationSeconds,
                   tokenType         |-> serverTokenResponse.token_type,
                   oboAssertion      |-> oboAssertion])
    ELSE None

\* CachedAccessToken changed to take the scopes of the request always
CachedAccessToken_RequestScopes(homeId, env, serverTokenResponse, authority, idTok, libraryState, requestScopes, oboAssertion, now) ==
    IF ~IsEmpty(serverTokenResponse.access_token)
    THEN LET responseScopes == ScopeSetFromArray(requestScopes)
             timestamp == IF IsSome(libraryState) THEN Get(libraryState).ts ELSE now
             tokenExpirationSeconds == timestamp + serverTokenResponse.expires_in
             extendedTokenExpirationSeconds ==
                 tokenExpirationSeconds + serverTokenResponse.ext_expires_in
         IN  Some([homeAccountId     |-> homeId,
                   environment       |-> env,
                   secret            |-> serverTokenResponse.access_token,
                   clientId          |-> ClientId,
                   realm             |-> IF IsSome(idTok) THEN Get(idTok).claims.tid
                                                          ELSE authority.tenant,
                   target            |-> PrintScopes(responseScopes),
                   expiresOn         |-> tokenExpirationSeconds,
                   extendedExpiresOn |-> extendedTokenExpirationSeconds,
                   tokenType         |-> serverTokenResponse.token_type,
                   oboAssertion      |-> oboAssertion])
    ELSE None

\* the access-token record of generateCacheRecord; now is TimeUtils.nowSeconds()
CachedAccessToken(homeId, env, serverTokenResponse, authority, idTok, libraryState, requestScopes, oboAssertion, now) ==
    IF ~IsEmpty(serverTokenResponse.access_token)
    THEN LET responseScopes == IF serverTokenResponse.scope # << >>
                               THEN ScopeSetFromString(serverTokenResponse.scope)
                               ELSE ScopeSetFromArray(requestScopes)
             timestamp == IF IsSome(libraryState) THEN Get(libraryState).ts ELSE now
             tokenExpirationSeconds == timestamp + serverTokenResponse.expires_in
             extendedTokenExpirationSeconds ==
                 tokenExpirationSeconds + serverTokenResponse.ext_expires_in
         IN  Some([homeAccountId     |-> homeId,
                   environment       |-> env,
                   secret            |-> serverTokenResponse.access_token,
                   clientId          |-> ClientId,
                   realm             |-> IF IsSome(idTok) THEN Get(idTok).claims.tid
                                                          ELSE authority.tenant,
                   target            |-> PrintScopes(responseScopes),
                   expiresOn         |-> tokenExpirationSeconds,
                   extendedExpiresOn |-> extendedTokenExpirationSeconds,
                   tokenType         |-> serverTokenResponse.token_type,
                   oboAssertion      |-> oboAssertion])
    ELSE None

\* the refresh-token record of generateCacheRecord
CachedRefreshToken(homeId, env, serverTokenResponse, oboAssertion) ==
    IF ~IsEmpty(serverTokenResponse.refresh_token)
    THEN Some([homeAccountId |-> homeId,
               environment   |-> env,
               secret        |-> serverTokenResponse.refresh_token,
               clientId      |-> ClientId,
               familyId      |-> serverTokenResponse.foci,
               oboAssertion  |-> oboAssertion])
    ELSE None

\* CachedAppMetadata changed to build the record whatever foci is
CachedAppMetadata_Always(env, serverTokenResponse) ==
    Some([clientId |-> ClientId, environment |-> env,
          familyId |-> serverTokenResponse.foci])

\* the app-metadata record of generateCacheRecord
CachedAppMetadata(env, serverTokenResponse) ==
    IF ~IsEmpty(serverTokenResponse.foci)
    THEN Some([clientId |-> ClientId, environment |-> env,
               familyId |-> serverTokenResponse.foci])
    ELSE None

\* ResponseHandler.generateCacheRecord; homeId is this.homeAccountIdentifier
generateCacheRecord(homeId, serverTokenResponse, authority, idTok, libraryState, requestScopes, oboAssertion, now) ==
    LET env == GenerateEnvironmentFromAuthority(authority)
        withIdToken == ~IsEmpty(serverTokenResponse.id_token) /\ IsSome(idTok)
        account == IF withIdToken
                   THEN generateAccountEntity(homeId, serverTokenResponse, Get(idTok),
                                              authority, oboAssertion)
                   ELSE Ok(None)
    IN  IF IsEmpty(env) THEN Err("InvalidCacheEnvironment")
        ELSE IF account.error # "" THEN Err(account.error)
        ELSE Ok([account      |-> IF withIdToken THEN Some(account.value) ELSE None,
                 idToken      |-> CachedIdToken(homeId, env, serverTokenResponse, idTok,
                                                oboAssertion),
                 accessToken  |-> CachedAccessToken(homeId, env, serverTokenResponse,
                                                    authority, idTok, libraryState,
                                                    requestScopes, oboAssertion, now),
                 refreshToken |-> CachedRefreshToken(homeId, env, serverTokenResponse,
                                                     oboAssertion),
                 appMetadata  |-> CachedAppMetadata(env, serverTokenResponse)])

\* PopTokenGenerator.signPopToken
SignPopToken(secret, resourceRequestMethod, resourceRequestUri) ==
    <<"signed", secret, resourceRequestMethod, resourceRequestUri>>

\* AccountEntity.getAccountInfo
GetAccountInfo(account) ==
    [homeAccountId |-> account.homeAccountId, environment |-> account.environment,
     tenantId |-> account.realm]

\* PopParametersMissing changed to fail only when both the method and the
\* URI are missing
PopParametersMissing_BothMissing(record, resourceRequestMethod, resourceRequestUri) ==
    /\ IsSome(record.accessToken)
    /\ Get(record.accessToken).tokenType = POP
    /\ (resourceRequestMethod = "" /\ resourceRequestUri = "")

\* ResponseHandler.generateAuthenticationResult: the proof-of-possession
\* parameter check of the access token
PopParametersMissing(record, resourceRequestMethod, resourceRequestUri) ==
    /\ IsSome(record.accessToken)
    /\ Get(record.accessToken).tokenType = POP
    /\ (resourceRequestMethod = "" \/ resourceRequestUri = "")

\* ResultFamilyId changed to pass the familyId of the app-metadata through
ResultFamilyId_Passthrough(record) ==
    IF IsSome(record.appMetadata) THEN Get(record.appMetadata).familyId
                                  ELSE EMPTY_STRING

\* ResponseHandler.generateAuthenticationResult: the familyId of the result
ResultFamilyId(record) ==
    IF IsSome(record.appMetadata)
    THEN (IF Get(record.appMetadata).familyId = THE_FAMILY_ID THEN THE_FAMILY_ID
                                                               ELSE EMPTY_STRING)
    ELSE EMPTY_STRING

\* ResponseHandler.generateAuthenticationResult
generateAuthenticationResult(record, fromTokenCache, idTok, requestState, resourceRequestMethod, resourceRequestUri) ==
    IF PopParametersMissing(record, resourceRequestMethod, resourceRequestUri)
    THEN Err("ResourceRequestParametersRequired")
    ELSE LET at == record.accessToken
             claims == IF IsSome(idTok) THEN Some(Get(idTok).claims) ELSE None
         IN Ok([uniqueId     |-> IF IsSome(idTok)
                                 THEN (IF Get(idTok).claims.oid # ""
                                       THEN Get(idTok).claims.oid
                                       ELSE Get(idTok).claims.sub)
                                 ELSE EMPTY_STRING,
                tenantId     |-> IF IsSome(idTok) THEN Get(idTok).claims.tid
                                                  ELSE EMPTY_STRING,
                scopes       |-> IF IsSome(at)
                                 THEN AsArray(ScopeSetFromString(Get(at).target))
                                 ELSE << >>,
                account      |-> IF IsSome(record.account)
                                 THEN Some(GetAccountInfo(Get(record.account)))
                                 ELSE None,
                idToken      |-> IF IsSome(idTok) THEN Get(idTok).rawToken
                                                  ELSE EMPTY_STRING,
                idTokenClaims |-> claims,
                accessToken  |-> IF IsSome(at)
                                 THEN (IF Get(at).tokenType = POP
                                       THEN SignPopToken(Get(at).secret,
                                                         resourceRequestMethod,
                                                         resourceRequestUri)
                                       ELSE <<Get(at).secret>>)
                                 ELSE << >>,
                fromCache    |-> fromTokenCache,
                expiresOn    |-> IF IsSome(at) THEN Some(Get(at).expiresOn * 1000)
                                               ELSE None,
                extExpiresOn |-> IF IsSome(at) THEN Some(Get(at).extendedExpiresOn * 1000)
                                               ELSE None,
                familyId     |-> ResultFamilyId(record),
                tokenType    |-> IF IsSome(at) THEN Get(at).tokenType ELSE EMPTY_STRING,
                state        |-> IF IsSome(requestState)
                                 THEN Get(requestState).userRequestState
                                 ELSE EMPTY_STRING])

----------------------------------------------------------------------------
(* validateServerAuthorizationCodeResponse *)

\* A state string is a sequence of characters. A decoded string is a sequence
\* of characters too, each written as the pair of hexadecimal digits of its
\* code: "a" is <<"6", "1">>.
HexDigits == {"0", "1", "2", "3", "4", "5", "6", "7", "8", "9",
              "a", "b", "c", "d", "e", "f"}
\* the first digit of the code of an ASCII character
AsciiLead == {"0", "1", "2", "3", "4", "5", "6", "7"}

\* the code of a character that stands for itself
CodeOf(c) ==
    CASE c = "a" -> <<"6", "1">>
      [] c = "1" -> <<"3", "1">>
      [] c = "6" -> <<"3", "6">>
      [] c = "%" -> <<"2", "5">>

\* decodeURIComponent from position i on: "%" and two hexadecimal digits are
\* the character of that code, any other character is itself; a "%" without
\* two digits after it, or with a code that is no character by itself (80 and
\* above), is a URIError.
RECURSIVE DecodeFrom(_, _)
DecodeFrom(str, i) ==
    IF i > Len(str) THEN Ok(<< >>)
    ELSE IF str[i] # "%"
    THEN LET rest == DecodeFrom(str, i + 1)
         IN  IF rest.error # "" THEN rest ELSE Ok(<<CodeOf(str[i])>> \o rest.value)
    ELSE IF i + 2 <= Len(str) /\ str[i + 1] \in AsciiLead /\ str[i + 2] \in HexDigits
    THEN LET rest == DecodeFrom(str, i + 3)
         IN  IF rest.error # "" THEN rest
             ELSE Ok(<<(<<str[i + 1], str[i + 2]>>)>> \o rest.value)
    ELSE Err("URIError")

\* decodeURIComponent
DecodeURIComponent(str) == DecodeFrom(str, 1)

\* InteractionRequiredAuthError.isInteractionRequiredError: a fixed predicate
\* over the known interaction-required error codes and sub-codes
IsInteractionRequiredError(error, errorDescription, suberror) ==
    \/ error \in {"interaction_required", "consent_required", "login_required"}
    \/ suberror \in {"message_only", "additional_action", "basic_action",
                     "user_password_expired", "consent_required"}

\* buildClientInfo throws on a client_info it cannot decode
ClientInfoDecodes(clientInfo) == clientInfo # "ci.bad"

\* lines 69-71 changed to compare the two states as they are, not decoded
StatesDiffer_Raw(state, cachedState) == state # cachedState

\* lines 69-71: the decoded states differ
StatesDiffer(state, cachedState) ==
    DecodeURIComponent(state).value # DecodeURIComponent(cachedState).value

\* lines 74-80: the response carries an error, and which one is thrown
CarriesError(resp) == resp.error # "" \/ resp.error_description # "" \/ resp.suberror # ""
ErrorOf(resp) ==
    IF IsInteractionRequiredError(resp.error, resp.error_description, resp.suberror)
    THEN "InteractionRequired"
    ELSE "ServerError"

\* the function changed to look for a server error before it compares the
\* states
validateServerAuthorizationCodeResponse_ErrorFirst(serverResponseHash, cachedState) ==
    IF serverResponseHash.state = << >> \/ cachedState = << >>
    THEN "StateNotFound"
    ELSE IF CarriesError(serverResponseHash)
    THEN ErrorOf(serverResponseHash)
    ELSE IF \/ DecodeURIComponent(serverResponseHash.state).error # ""
            \/ DecodeURIComponent(cachedState).error # ""
    THEN "URIError"
    ELSE IF StatesDiffer(serverResponseHash.state, cachedState)
    THEN "StateMismatch"
    ELSE IF serverResponseHash.client_info # ""
            /\ ~ClientInfoDecodes(serverResponseHash.client_info)
    THEN "ClientInfoDecodingError"
    ELSE "ok"

\* ResponseHandler.validateServerAuthorizationCodeResponse: the error it
\* throws, or "ok". StateNotFound is the error of createStateNotFoundError.
validateServerAuthorizationCodeResponse(serverResponseHash, cachedState) ==
    IF serverResponseHash.state = << >> \/ cachedState = << >>
    THEN "StateNotFound"
    ELSE IF \/ DecodeURIComponent(serverResponseHash.state).error # ""
            \/ DecodeURIComponent(cachedState).error # ""
    THEN "URIError"
    ELSE IF StatesDiffer(serverResponseHash.state, cachedState)
    THEN "StateMismatch"
    ELSE IF CarriesError(serverResponseHash)
    THEN ErrorOf(serverResponseHash)
    ELSE IF serverResponseHash.client_info # ""
            /\ ~ClientInfoDecodes(serverResponseHash.client_info)
    THEN "ClientInfoDecodingError"
    ELSE "ok"

----------------------------------------------------------------------------
(* validateTokenResponse *)

\* A field of the token response is absent (None) or a string Some(s), which
\* may be the empty string; error_codes is absent or a list of numbers.

\* the truthiness of a string field
Truthy(field) == IsSome(field) /\ Get(field) # ""
\* the string a string-typed parameter receives, "" standing for undefined
StringOf(field) == IF IsSome(field) THEN Get(field) ELSE ""

\* Array.prototype.toString: the elements, each as its decimal numeral,
\* separated by commas
RECURSIVE ArrayToString(_)
ArrayToString(arr) ==
    IF arr = << >> THEN << >>
    ELSE IF Len(arr) = 1 THEN <<ToString(Head(arr))>>
    ELSE <<ToString(Head(arr)), ",">> \o ArrayToString(Tail(arr))

\* what a template literal prints for a string field: undefined is printed
\* as the word undefined
TemplateString(field) == IF IsSome(field) THEN Get(field) ELSE "undefined"
\* what a template literal prints for error_codes
TemplateArray(field) == IF IsSome(field) THEN ArrayToString(Get(field)) ELSE <<"undefined">>

\* line 98: errString, as the list of its pieces
ErrString(serverResponse) ==
    <<TemplateArray(serverResponse.error_codes), " - [",
      TemplateString(serverResponse.timestamp), "]: ",
      TemplateString(serverResponse.error_description), " - Correlation ID: ",
      TemplateString(serverResponse.correlation_id), " - Trace ID: ",
      TemplateString(serverResponse.trace_id)>>

\* what validateTokenResponse gives: it returns, or throws an error with fields
Returns == [kind |-> "ok"]
InteractionRequiredAuthError(error, errorDescription, suberror) ==
    [kind |-> "InteractionRequired", error |-> error, description |-> errorDescription,
     suberror |-> suberror]
ServerError(error, message) == [kind |-> "ServerError", error |-> error, message |-> message]

\* validateTokenResponse changed to look at the error field only
validateTokenResponse_ErrorOnly(serverResponse) ==
    IF Truthy(serverResponse.error)
    THEN IF IsInteractionRequiredError(StringOf(serverResponse.error),
                                       StringOf(serverResponse.error_description),
                                       StringOf(serverResponse.suberror))
         THEN InteractionRequiredAuthError(serverResponse.error,
                                           serverResponse.error_description,
                                           serverResponse.suberror)
         ELSE ServerError(serverResponse.error, ErrString(serverResponse))
    ELSE Returns

\* ResponseHandler.validateTokenResponse
validateTokenResponse(serverResponse) ==
    IF \/ Truthy(serverResponse.error)
       \/ Truthy(serverResponse.error_description)
       \/ Truthy(serverResponse.suberror)
    THEN IF IsInteractionRequiredError(StringOf(serverResponse.error),
                                       StringOf(serverResponse.error_description),
                                       StringOf(serverResponse.suberror))
         THEN InteractionRequiredAuthError(serverResponse.error,
                                           serverResponse.error_description,
                                           serverResponse.suberror)
         ELSE ServerError(serverResponse.error, ErrString(serverResponse))
    ELSE Returns

----------------------------------------------------------------------------
(* The cache store (CacheManager) *)

\* CacheManager.getAccount: whether an account is stored under the key
GetAccount(st, key) == key \in st.accounts

\* the credentials of a cache record, each with the account it belongs to
CredentialsOf(record) ==
    {<<"IdToken", Get(record.idToken).homeAccountId, Get(record.idToken).environment>> :
        x \in IF IsSome(record.idToken) THEN {1} ELSE {}}
    \cup
    {<<"AccessToken", Get(record.accessToken).homeAccountId,
       Get(record.accessToken).environment>> :
        x \in IF IsSome(record.accessToken) THEN {1} ELSE {}}
    \cup
    {<<"RefreshToken", Get(record.refreshToken).homeAccountId,
       Get(record.refreshToken).environment>> :
        x \in IF IsSome(record.refreshToken) THEN {1} ELSE {}}

\* CacheManager.saveCacheRecord: the whole record is applied as one unit
SaveCacheRecordTo(st, record) ==
    [accounts    |-> st.accounts \cup
                     (IF IsSome(record.account)
                      THEN {GenerateAccountKey(Get(record.account))} ELSE {}),
     credentials |-> st.credentials \cup CredentialsOf(record)]

\* CacheManager.removeAccount: the account and the credentials that belong to it
RemoveAccountFrom(st, key) ==
    [accounts    |-> st.accounts \ {key},
     credentials |-> {c \in st.credentials : ~(c[2] = key[1] /\ c[3] = key[2])}]

Event(ev, key, ok) == [ev |-> ev, key |-> key, ok |-> ok]

----------------------------------------------------------------------------
(* handleServerTokenResponse *)

\* lines 120-123: the idToken object
IdTokenObjOf(serverTokenResponse) ==
    IF serverTokenResponse.id_token # ""
    THEN Some(AuthToken(serverTokenResponse.id_token))
    ELSE None

\* NonceCheckFails changed to pass a token that carries no nonce claim
NonceCheckFails_BothPresent(idTok, cachedNonce) ==
    /\ IsSome(idTok)
    /\ cachedNonce # ""
    /\ Get(idTok).claims.nonce # ""
    /\ Get(idTok).claims.nonce # cachedNonce

\* lines 121-129: the token nonce check throws
NonceCheckFails(idTok, cachedNonce) ==
    /\ IsSome(idTok)
    /\ cachedNonce # ""
    /\ Get(idTok).claims.nonce # cachedNonce

\* PersistenceEnabled changed to the condition of the finally block, which
\* also asks for a cache context that does not exist yet
PersistenceEnabled_WithContext == persistencePlugin /\ serializableCache /\ cacheContext

\* line 144: persistence is enabled
PersistenceEnabled == persistencePlugin /\ serializableCache

\* RaceGuardApplies changed to guard every call whose record has an account
RaceGuardApplies_AnyCall == IsSome(Get(cacheRecord).account)

\* RaceGuardApplies changed to guard no call
RaceGuardApplies_Never == FALSE

\* line 154: the refresh-race guard applies
RaceGuardApplies ==
    args.handlingRefreshTokenResponse /\ IsSome(Get(cacheRecord).account)

\* AfterCacheAccessDue changed to the hook being called after the try block
\* instead of in its finally block: only when the block completed normally
AfterCacheAccessDue_AfterTry ==
    persistencePlugin /\ serializableCache /\ cacheContext /\ completion = "normal"

\* line 164: the finally block calls afterCacheAccess
AfterCacheAccessDue == persistencePlugin /\ serializableCache /\ cacheContext

\* ThrowBeforeTry changed to the error being thrown inside the try block,
\* after the call of beforeCacheAccess
ThrowBeforeTry_InsideTry(error) ==
    /\ outcome' = error
    /\ pc' = "done"
    /\ cacheContext' = PersistenceEnabled
    /\ log' = IF PersistenceEnabled
              THEN log \o <<Event("beforeCacheAccess", << >>, TRUE),
                            Event("beforeCacheAccess.done", << >>, TRUE),
                            Event("afterCacheAccess", << >>, TRUE),
                            Event("afterCacheAccess.done", << >>, TRUE)>>
              ELSE log
    /\ UNCHANGED cacheRecord

\* lines 127, 183, 276: an error thrown before the try block leaves the call
\* at once, with no hook called and the store not touched
ThrowBeforeTry(error) ==
    /\ outcome' = error
    /\ pc' = "done"
    /\ UNCHANGED <<cacheRecord, cacheContext, log>>

\* GuardAborts changed to a warning only: the write goes ahead
GuardAborts_WarnOnly(account) == FALSE

\* line 157: the looked-up account is missing, the call gives up the write
GuardAborts(account) == ~account

\* lines 119-148: from the call to the first suspension point. The nonce
\* check, the home account id and the cache record come before the try block.
HandleServerTokenResponse ==
    /\ pc = "idle"
    /\ LET resp == args.serverTokenResponse
           idTok == IdTokenObjOf(resp)
           homeId == GenerateHomeAccountId(resp.client_info, args.authority.authorityType,
                                           idTok)
           reqState == IF args.cachedState # << >>
                       THEN Some(ParseRequestState(args.cachedState)) ELSE None
           libraryState == IF IsSome(reqState) THEN Some(Get(reqState).libraryState)
                                               ELSE None
           rec == generateCacheRecord(homeId, resp, args.authority, idTok, libraryState,
                                      args.requestScopes, args.oboAssertion, args.now)
       IN  /\ idTokenObj' = idTok
           /\ IF NonceCheckFails(idTok, args.cachedNonce)
              THEN /\ ThrowBeforeTry("NonceMismatch")
                   /\ UNCHANGED <<homeAccountIdentifier, requestStateObj>>
              ELSE /\ homeAccountIdentifier' = homeId
                   /\ requestStateObj' = reqState
                   /\ IF rec.error # ""
                      THEN ThrowBeforeTry(rec.error)
                      ELSE /\ cacheRecord' = Some(rec.value)
                           /\ UNCHANGED outcome
                           /\ IF PersistenceEnabled
                              THEN /\ cacheContext' = TRUE
                                   /\ log' = Append(log, Event("beforeCacheAccess", << >>, TRUE))
                                   /\ pc' = "before"
                              ELSE /\ pc' = "guard"
                                   /\ UNCHANGED <<cacheContext, log>>
    /\ UNCHANGED <<persistencePlugin, serializableCache, args, completion, result, store,
                   removals, avars, tvars, ovars>>

\* BeforeCacheAccessDone changed to a hook that is not awaited: the call goes
\* on while the hook is still running
BeforeCacheAccessDone_NotAwaited ==
    /\ pc = "before"
    /\ pc' = "guard"
    /\ UNCHANGED <<persistencePlugin, serializableCache, homeAccountIdentifier, args,
                   idTokenObj, requestStateObj, cacheRecord, cacheContext, completion,
                   outcome, result, store, removals, log, avars, tvars, ovars>>

\* line 147: the awaited beforeCacheAccess hook completes
BeforeCacheAccessDone ==
    /\ pc = "before"
    /\ log' = Append(log, Event("beforeCacheAccess.done", << >>, TRUE))
    /\ pc' = "guard"
    /\ UNCHANGED <<persistencePlugin, serializableCache, homeAccountIdentifier, args,
                   idTokenObj, requestStateObj, cacheRecord, cacheContext, completion,
                   outcome, result, store, removals, avars, tvars, ovars>>

\* lines 154-161: the refresh-race guard looks the account up
RaceGuard ==
    /\ pc = "guard"
    /\ IF RaceGuardApplies
       THEN LET key == GenerateAccountKey(Get(Get(cacheRecord).account))
                account == GetAccount(store, key)
            IN  /\ log' = Append(log, Event("getAccount", key, account))
                /\ IF GuardAborts(account)
                   THEN completion' = "return_null" /\ pc' = "finally"
                   ELSE pc' = "save" /\ UNCHANGED completion
       ELSE pc' = "save" /\ UNCHANGED <<log, completion>>
    /\ UNCHANGED <<persistencePlugin, serializableCache, homeAccountIdentifier, args,
                   idTokenObj, requestStateObj, cacheRecord, cacheContext, outcome, result,
                   store, removals, avars, tvars, ovars>>

\* SaveCacheRecord changed to build the result inside the try block before
\* the write: the missing proof-of-possession parameters throw there
SaveCacheRecord_AfterResult ==
    /\ pc = "save"
    /\ IF PopParametersMissing(Get(cacheRecord), args.resourceRequestMethod,
                               args.resourceRequestUri)
       THEN /\ outcome' = "ResourceRequestParametersRequired"
            /\ completion' = "throw_result"
            /\ UNCHANGED <<store, log>>
       ELSE /\ \E written \in BOOLEAN :
                /\ store' = IF written THEN SaveCacheRecordTo(store, Get(cacheRecord))
                                       ELSE store
                /\ completion' = IF written THEN "normal" ELSE "throw"
                /\ log' = Append(log, Event("saveCacheRecord", << >>, written))
            /\ UNCHANGED outcome
    /\ pc' = "finally"
    /\ UNCHANGED <<persistencePlugin, serializableCache, homeAccountIdentifier, args,
                   idTokenObj, requestStateObj, cacheRecord, cacheContext, result,
                   removals, avars, tvars, ovars>>

\* line 162: the store write, which succeeds or throws
SaveCacheRecord ==
    /\ pc = "save"
    /\ \E written \in BOOLEAN :
        /\ store' = IF written THEN SaveCacheRecordTo(store, Get(cacheRecord)) ELSE store
        /\ completion' = IF written THEN "normal" ELSE "throw"
        /\ log' = Append(log, Event("saveCacheRecord", << >>, written))
    /\ pc' = "finally"
    /\ UNCHANGED <<persistencePlugin, serializableCache, homeAccountIdentifier, args,
                   idTokenObj, requestStateObj, cacheRecord, cacheContext, outcome, result,
                   removals, avars, tvars, ovars>>

\* LeaveTry changed to swallow the error of the store write
LeaveTry_Swallow ==
    /\ outcome' = CASE completion = "return_null" -> "null"
                    [] OTHER                      -> outcome
    /\ pc' = IF completion = "return_null" THEN "done" ELSE "result"

\* lines 159, 162, 168: the try statement is left the way its block completed
LeaveTry ==
    /\ outcome' = CASE completion = "return_null" -> "null"
                    [] completion = "throw"       -> "StoreWriteFailed"
                    [] OTHER                      -> outcome
    /\ pc' = IF completion = "normal" THEN "result" ELSE "done"

\* lines 163-166: the finally block, up to the call of afterCacheAccess
FinallyBlock ==
    /\ pc = "finally"
    /\ IF AfterCacheAccessDue
       THEN /\ log' = Append(log, Event("afterCacheAccess", << >>, TRUE))
            /\ pc' = "after"
            /\ UNCHANGED outcome
       ELSE /\ LeaveTry
            /\ UNCHANGED log
    /\ UNCHANGED <<persistencePlugin, serializableCache, homeAccountIdentifier, args,
                   idTokenObj, requestStateObj, cacheRecord, cacheContext, completion,
                   result, store, removals, avars, tvars, ovars>>

\* lines 166-168: the awaited afterCacheAccess hook completes
AfterCacheAccessDone ==
    /\ pc = "after"
    /\ log' = Append(log, Event("afterCacheAccess.done", << >>, TRUE))
    /\ LeaveTry
    /\ UNCHANGED <<persistencePlugin, serializableCache, homeAccountIdentifier, args,
                   idTokenObj, requestStateObj, cacheRecord, cacheContext, completion,
                   result, store, removals, avars, tvars, ovars>>

\* line 169 and lines 294-336: the result is built after the try statement;
\* a proof-of-possession token is handed to the signer (line 307)
GenerateResult ==
    /\ pc = "result"
    /\ LET r == generateAuthenticationResult(Get(cacheRecord), FALSE, idTokenObj,
                                             requestStateObj, args.resourceRequestMethod,
                                             args.resourceRequestUri)
           at == Get(cacheRecord).accessToken
       IN  IF r.error # ""
           THEN outcome' = r.error /\ pc' = "done" /\ UNCHANGED <<result, log>>
           ELSE IF IsSome(at) /\ Get(at).tokenType = POP
           THEN /\ log' = Append(log, Event("signPopToken", << >>, TRUE))
                /\ pc' = "sign"
                /\ UNCHANGED <<outcome, result>>
           ELSE /\ outcome' = "result" /\ result' = Some(r.value) /\ pc' = "done"
                /\ UNCHANGED log
    /\ UNCHANGED <<persistencePlugin, serializableCache, homeAccountIdentifier, args,
                   idTokenObj, requestStateObj, cacheRecord, cacheContext, completion,
                   store, removals, avars, tvars, ovars>>

\* line 307: the awaited signer completes
SignPopTokenDone ==
    /\ pc = "sign"
    /\ LET r == generateAuthenticationResult(Get(cacheRecord), FALSE, idTokenObj,
                                             requestStateObj, args.resourceRequestMethod,
                                             args.resourceRequestUri)
       IN  outcome' = "result" /\ result' = Some(r.value) /\ pc' = "done"
    /\ UNCHANGED <<persistencePlugin, serializableCache, homeAccountIdentifier, args,
                   idTokenObj, requestStateObj, cacheRecord, cacheContext, completion,
                   store, removals, log, avars, tvars, ovars>>

\* another caller of the shared store removes an account (lines 150-152)
RemoveAccount ==
    /\ removals < MaxRemovals
    /\ \E key \in store.accounts :
        /\ store' = RemoveAccountFrom(store, key)
        /\ log' = Append(log, Event("removeAccount", key, TRUE))
    /\ removals' = removals + 1
    /\ UNCHANGED <<persistencePlugin, serializableCache, homeAccountIdentifier, args, pc,
                   idTokenObj, requestStateObj, cacheRecord, cacheContext, completion,
                   outcome, result, avars, tvars, ovars>>

----------------------------------------------------------------------------
(* Inputs *)

Authorities ==
    {[authorityType |-> ADFS,    protocolMode |-> AAD,  tenant |-> "adfs", hostname |-> "login.example"],
     [authorityType |-> DEFAULT, protocolMode |-> AAD,  tenant |-> "tid1", hostname |-> "login.example"],
     [authorityType |-> DEFAULT, protocolMode |-> OIDC, tenant |-> "tid1", hostname |-> "login.example"],
     [authorityType |-> DEFAULT, protocolMode |-> AAD,  tenant |-> "tid1", hostname |-> ""]}

\* access_token, token_type, resourceRequestMethod, resourceRequestUri
AccessTokenCases ==
    {<<"",    "",     "",    "">>,
     <<"at1", BEARER, "",    "">>,
     <<"at1", POP,    "GET", "uri1">>,
     <<"at1", POP,    "",    "uri1">>,
     <<"at1", POP,    "GET", "">>}

TokenResponses ==
    {[id_token |-> idt, client_info |-> ci, access_token |-> a[1], token_type |-> a[2],
      refresh_token |-> "rt1", foci |-> "", scope |-> <<"r">>, expires_in |-> 1,
      ext_expires_in |-> 1, resourceCase |-> a] :
        idt \in {"", "idt.n1", "idt.n2", "idt.nononce"}, ci \in {"", "ci1"},
        a \in AccessTokenCases}

CallArgs ==
    {[serverTokenResponse |-> [f \in DOMAIN r \ {"resourceCase"} |-> r[f]],
      authority |-> au,
      resourceRequestMethod |-> r.resourceCase[3],
      resourceRequestUri |-> r.resourceCase[4],
      cachedNonce |-> n,
      cachedState |-> << >>,
      requestScopes |-> << <<"r">> >>,
      oboAssertion |-> "",
      handlingRefreshTokenResponse |-> h,
      now |-> 0] :
        r \in TokenResponses, au \in Authorities, n \in {"", "n1"}, h \in BOOLEAN}

\* the account keys a call can derive
AccountKeys ==
    {<<<<"uid1", "utid1">>, "login.example", "tid1">>,
     <<<<"sub1">>, "login.example", "tid1">>}

NoAuthCodeResponse ==
    [state |-> << >>, error |-> "", error_description |-> "", suberror |-> "",
     client_info |-> ""]

NoTokenResponse ==
    [error |-> None, error_description |-> None, suberror |-> None, error_codes |-> None,
     timestamp |-> None, correlation_id |-> None, trace_id |-> None]

\* no validateTokenResponse call has been made
NoTokenResponseOutcome == [kind |-> "none"]

\* no overlapping calls
NoCalls == << >>

Init ==
    /\ persistencePlugin \in BOOLEAN
    /\ serializableCache \in BOOLEAN
    /\ homeAccountIdentifier = << >>
    /\ args \in CallArgs
    /\ pc = "idle"
    /\ idTokenObj = None
    /\ requestStateObj = None
    /\ cacheRecord = None
    /\ cacheContext = FALSE
    /\ completion = "normal"
    /\ outcome = "none"
    /\ result = None
    /\ store \in {[accounts |-> a, credentials |-> {}] : a \in SUBSET AccountKeys}
    /\ removals = 0
    /\ log = << >>
    /\ authCodeResponse = NoAuthCodeResponse
    /\ authCodeCachedState = << >>
    /\ authCodeOutcome = "none"
    /\ tokenResponse = NoTokenResponse
    /\ tokenResponseOutcome = NoTokenResponseOutcome
    /\ calls = NoCalls

Next ==
    \/ HandleServerTokenResponse
    \/ BeforeCacheAccessDone
    \/ RaceGuard
    \/ SaveCacheRecord
    \/ FinallyBlock
    \/ AfterCacheAccessDone
    \/ GenerateResult
    \/ SignPopTokenDone
    \/ RemoveAccount

Spec == Init /\ [][Next]_vars

----------------------------------------------------------------------------
(* validateServerAuthorizationCodeResponse applied to bounded inputs *)

StateChars == {"a", "1", "6", "%"}

\* the strings over StateChars of length n or less
RECURSIVE StringsUpTo(_)
StringsUpTo(n) ==
    IF n = 0 THEN {<< >>}
    ELSE LET shorter == StringsUpTo(n - 1)
         IN  shorter \cup {Append(str, c) : str \in shorter, c \in StateChars}

\* error, error_description, suberror
AuthCodeErrorCases ==
    {<<"", "", "">>,
     <<"interaction_required", "", "">>,
     <<"access_denied", "denied", "">>,
     <<"", "denied", "">>,
     <<"", "", "message_only">>,
     <<"", "", "bad_token">>}

AuthCodeResponses ==
    {[state |-> st, error |-> e[1], error_description |-> e[2], suberror |-> e[3],
      client_info |-> ci] :
        st \in StringsUpTo(MaxStateLen), e \in AuthCodeErrorCases,
        ci \in {"", "ci1", "ci.bad"}}

\* the call of validateServerAuthorizationCodeResponse
ValidateServerAuthorizationCodeResponse ==
    /\ authCodeOutcome = "none"
    /\ authCodeOutcome' =
           validateServerAuthorizationCodeResponse(authCodeResponse, authCodeCachedState)
    /\ UNCHANGED <<authCodeResponse, authCodeCachedState, hvars, tvars, ovars>>

InitAuthCode ==
    /\ authCodeResponse \in AuthCodeResponses
    /\ authCodeCachedState \in StringsUpTo(MaxCachedStateLen)
    /\ authCodeOutcome = "none"
    /\ persistencePlugin = FALSE
    /\ serializableCache = FALSE
    /\ homeAccountIdentifier = << >>
    /\ args = CHOOSE a \in CallArgs : TRUE
    /\ pc = "idle"
    /\ idTokenObj = None
    /\ requestStateObj = None
    /\ cacheRecord = None
    /\ cacheContext = FALSE
    /\ completion = "normal"
    /\ outcome = "none"
    /\ result = None
    /\ store = [accounts |-> {}, credentials |-> {}]
    /\ removals = 0
    /\ log = << >>
    /\ tokenResponse = NoTokenResponse
    /\ tokenResponseOutcome = NoTokenResponseOutcome
    /\ calls = NoCalls

NextAuthCode == ValidateServerAuthorizationCodeResponse

SpecAuthCode == InitAuthCode /\ [][NextAuthCode]_vars

----------------------------------------------------------------------------
(* handleServerTokenResponse without persistence plugin, applied to token
   responses that vary in the fields generateCacheRecord and
   generateAuthenticationResult read *)

\* the sequences over elems of length n or less
RECURSIVE SeqsUpTo(_, _)
SeqsUpTo(elems, n) ==
    IF n = 0 THEN {<< >>}
    ELSE LET shorter == SeqsUpTo(elems, n - 1)
         IN  shorter \cup {Append(q, e) : q \in shorter, e \in elems}

\* the characters of a scope string
ScopeChars == {"r", "w", " "}
\* the scopes a request asks for: non-empty and free of spaces
RequestScopeNames == {<<"r">>, <<"w">>, <<"r", "w">>}

AadAuthority ==
    [authorityType |-> DEFAULT, protocolMode |-> AAD, tenant |-> "tid1",
     hostname |-> "login.example"]

\* a call outside the refresh flow, with no cached nonce
AssembleCall(resp, authority, method, uri, cachedState, requestScopes, now) ==
    [serverTokenResponse |-> resp,
     authority |-> authority,
     resourceRequestMethod |-> method,
     resourceRequestUri |-> uri,
     cachedNonce |-> "",
     cachedState |-> cachedState,
     requestScopes |-> requestScopes,
     oboAssertion |-> "",
     handlingRefreshTokenResponse |-> FALSE,
     now |-> now]

\* calls that vary in which tokens the response carries and in the authority
EntityCalls ==
    {AssembleCall([id_token |-> idt, client_info |-> ci, access_token |-> a[1],
                   token_type |-> a[2], refresh_token |-> rt, foci |-> f,
                   scope |-> <<"r">>, expires_in |-> 1, ext_expires_in |-> 1],
                  au, a[3], a[4], << >>, << <<"r">> >>, 0) :
        idt \in {"", "idt.n1"}, ci \in {"", "ci1"}, a \in AccessTokenCases,
        rt \in {"", "rt1"}, f \in {"", "1", "2"}, au \in Authorities}

\* calls that vary in the lifetimes, the request timestamp and the current time
ExpiryCalls ==
    {AssembleCall([id_token |-> "idt.n1", client_info |-> "ci1", access_token |-> at,
                   token_type |-> BEARER, refresh_token |-> "rt1", foci |-> "",
                   scope |-> <<"r">>, expires_in |-> e, ext_expires_in |-> x],
                  AadAuthority, "", "", cs, << <<"r">> >>, now) :
        at \in {"", "at1"}, e \in 0..MaxSeconds, x \in 0..MaxSeconds,
        cs \in {<< >>} \cup {<<ts, "user1">> : ts \in 0..MaxTimestamp},
        now \in 0..MaxTimestamp}

\* calls that vary in the scope string, the request scopes and the tokens
ScopeCalls ==
    {AssembleCall([id_token |-> idt, client_info |-> "ci1", access_token |-> at,
                   token_type |-> BEARER, refresh_token |-> "rt1", foci |-> "",
                   scope |-> sc, expires_in |-> 1, ext_expires_in |-> 1],
                  AadAuthority, "", "", << >>, rs, 0) :
        idt \in {"", "idt.n1", "idt.nononce"}, at \in {"", "at1"},
        sc \in SeqsUpTo(ScopeChars, MaxScopeLen),
        rs \in SeqsUpTo(RequestScopeNames, MaxRequestScopes)}

InitAssemble ==
    /\ args \in EntityCalls \cup ExpiryCalls \cup ScopeCalls
    /\ persistencePlugin = FALSE
    /\ serializableCache = FALSE
    /\ homeAccountIdentifier = << >>
    /\ pc = "idle"
    /\ idTokenObj = None
    /\ requestStateObj = None
    /\ cacheRecord = None
    /\ cacheContext = FALSE
    /\ completion = "normal"
    /\ outcome = "none"
    /\ result = None
    /\ store = [accounts |-> {}, credentials |-> {}]
    /\ removals = 0
    /\ log = << >>
    /\ authCodeResponse = NoAuthCodeResponse
    /\ authCodeCachedState = << >>
    /\ authCodeOutcome = "none"
    /\ tokenResponse = NoTokenResponse
    /\ tokenResponseOutcome = NoTokenResponseOutcome
    /\ calls = NoCalls

NextAssemble ==
    \/ HandleServerTokenResponse
    \/ RaceGuard
    \/ SaveCacheRecord
    \/ FinallyBlock
    \/ GenerateResult
    \/ SignPopTokenDone

SpecAssemble == InitAssemble /\ [][NextAssemble]_vars

----------------------------------------------------------------------------
(* Several handleServerTokenResponse calls on one ResponseHandler instance.
   The calls share the fields of the instance (homeAccountIdentifier, the
   store, the plugin) and each has its own arguments and locals, calls[c].
   JavaScript runs a call without interruption from one await to the next, so
   a step of a call is the code between two of its suspension points: the
   awaits of beforeCacheAccess (line 147), of afterCacheAccess (line 166) and
   of signPopToken (line 307). *)

Calls == 1..NumCalls

\* the locals of a call that has not started
NewCall(a) ==
    [args |-> a, pc |-> "idle", idTokenObj |-> None, requestStateObj |-> None,
     cacheRecord |-> None, completion |-> "normal", outcome |-> "none", result |-> None]

\* lines 154-162 for the call with locals l, on store st: the race guard and
\* the store write, which succeeds (written) or throws
CommitOf(l, st, written) ==
    LET record == Get(l.cacheRecord)
        guarded == l.args.handlingRefreshTokenResponse /\ IsSome(record.account)
    IN  IF guarded /\ ~GetAccount(st, GenerateAccountKey(Get(record.account)))
        THEN [locals |-> [l EXCEPT !.completion = "return_null"], store |-> st]
        ELSE IF written
        THEN [locals |-> [l EXCEPT !.completion = "normal"],
              store |-> SaveCacheRecordTo(st, record)]
        ELSE [locals |-> [l EXCEPT !.completion = "throw"], store |-> st]

\* lines 168-169 and 294-307 for the call with locals l: the try statement
\* is left and the result is built, up to the await of the signer
ResultOf(l) ==
    IF l.completion = "return_null" THEN [l EXCEPT !.pc = "done", !.outcome = "null"]
    ELSE IF l.completion = "throw"
    THEN [l EXCEPT !.pc = "done", !.outcome = "StoreWriteFailed"]
    ELSE LET r == generateAuthenticationResult(Get(l.cacheRecord), FALSE, l.idTokenObj,
                                               l.requestStateObj,
                                               l.args.resourceRequestMethod,
                                               l.args.resourceRequestUri)
             at == Get(l.cacheRecord).accessToken
         IN  IF r.error # "" THEN [l EXCEPT !.pc = "done", !.outcome = r.error]
             ELSE IF IsSome(at) /\ Get(at).tokenType = POP THEN [l EXCEPT !.pc = "sign"]
             ELSE [l EXCEPT !.pc = "done", !.outcome = "result", !.result = Some(r.value)]

\* what a step of an overlapping call leaves alone
OverlapFrame ==
    UNCHANGED <<persistencePlugin, serializableCache, args, pc, idTokenObj,
                requestStateObj, cacheRecord, cacheContext, completion, outcome, result,
                removals, log, avars, tvars>>

\* lines 136-148 and, without persistence, the rest of the call up to the
\* await of the signer: generateCacheRecord reads this.homeAccountIdentifier,
\* whose value at that moment is homeId
AssembleAndGoOn(c, homeId) ==
    LET a == calls[c].args
        resp == a.serverTokenResponse
        idTok == IdTokenObjOf(resp)
        reqState == IF a.cachedState # << >>
                    THEN Some(ParseRequestState(a.cachedState)) ELSE None
        libraryState == IF IsSome(reqState) THEN Some(Get(reqState).libraryState)
                                            ELSE None
        rec == generateCacheRecord(homeId, resp, a.authority, idTok, libraryState,
                                   a.requestScopes, a.oboAssertion, a.now)
        l == [calls[c] EXCEPT !.idTokenObj = idTok, !.requestStateObj = reqState]
    IN  IF rec.error # ""
        THEN /\ calls' = [calls EXCEPT ![c] = [l EXCEPT !.pc = "done", !.outcome = rec.error]]
             /\ UNCHANGED store
        ELSE IF PersistenceEnabled
        THEN /\ calls' = [calls EXCEPT ![c] = [l EXCEPT !.cacheRecord = Some(rec.value),
                                                        !.pc = "before"]]
             /\ UNCHANGED store
        ELSE \E written \in BOOLEAN :
                LET commit == CommitOf([l EXCEPT !.cacheRecord = Some(rec.value)],
                                       store, written)
                IN  /\ calls' = [calls EXCEPT ![c] = ResultOf(commit.locals)]
                    /\ store' = commit.store

\* OverlapEnter changed to suspend between the assignment of
\* this.homeAccountIdentifier and the call of generateCacheRecord
OverlapEnter_AwaitBeforeAssembly(c) ==
    /\ \/ /\ calls[c].pc = "idle"
          /\ homeAccountIdentifier' =
                 GenerateHomeAccountId(calls[c].args.serverTokenResponse.client_info,
                                       calls[c].args.authority.authorityType,
                                       IdTokenObjOf(calls[c].args.serverTokenResponse))
          /\ calls' = [calls EXCEPT ![c].pc = "assigned"]
          /\ UNCHANGED store
       \/ /\ calls[c].pc = "assigned"
          /\ AssembleAndGoOn(c, homeAccountIdentifier)
          /\ UNCHANGED homeAccountIdentifier
    /\ OverlapFrame

\* lines 119-148 of call c: from the call to its first suspension point
OverlapEnter(c) ==
    /\ calls[c].pc = "idle"
    /\ LET a == calls[c].args
           idTok == IdTokenObjOf(a.serverTokenResponse)
       IN  IF NonceCheckFails(idTok, a.cachedNonce)
           THEN /\ calls' = [calls EXCEPT ![c] = [@ EXCEPT !.idTokenObj = idTok,
                                                           !.pc = "done",
                                                           !.outcome = "NonceMismatch"]]
                /\ UNCHANGED <<homeAccountIdentifier, store>>
           ELSE /\ homeAccountIdentifier' =
                       GenerateHomeAccountId(a.serverTokenResponse.client_info,
                                             a.authority.authorityType, idTok)
                /\ AssembleAndGoOn(c, homeAccountIdentifier')
    /\ OverlapFrame

\* lines 147-166 of call c: beforeCacheAccess has completed; the guard, the
\* write and the finally block run up to the await of afterCacheAccess
OverlapBeforeCacheAccessDone(c) ==
    /\ calls[c].pc = "before"
    /\ \E written \in BOOLEAN :
          LET commit == CommitOf(calls[c], store, written)
          IN  /\ calls' = [calls EXCEPT ![c] = [commit.locals EXCEPT !.pc = "after"]]
              /\ store' = commit.store
    /\ UNCHANGED homeAccountIdentifier
    /\ OverlapFrame

\* lines 166-169 of call c: afterCacheAccess has completed
OverlapAfterCacheAccessDone(c) ==
    /\ calls[c].pc = "after"
    /\ calls' = [calls EXCEPT ![c] = ResultOf(calls[c])]
    /\ UNCHANGED <<homeAccountIdentifier, store>>
    /\ OverlapFrame

\* line 307 of call c: the signer has completed
OverlapSignPopTokenDone(c) ==
    /\ calls[c].pc = "sign"
    /\ LET l == calls[c]
           r == generateAuthenticationResult(Get(l.cacheRecord), FALSE, l.idTokenObj,
                                             l.requestStateObj,
                                             l.args.resourceRequestMethod,
                                             l.args.resourceRequestUri)
       IN  calls' = [calls EXCEPT ![c] = [l EXCEPT !.pc = "done", !.outcome = "result",
                                                    !.result = Some(r.value)]]
    /\ UNCHANGED <<homeAccountIdentifier, store>>
    /\ OverlapFrame

AdfsAuthority ==
    [authorityType |-> ADFS, protocolMode |-> AAD, tenant |-> "adfs",
     hostname |-> "login.example"]

OverlapResponse(idt, ci, tokenType) ==
    [id_token |-> idt, client_info |-> ci, access_token |-> "at1", token_type |-> tokenType,
     refresh_token |-> "rt1", foci |-> "", scope |-> <<"r">>, expires_in |-> 1,
     ext_expires_in |-> 1]

\* the arguments of the overlapping calls: home account ids uid1.utid1 (an
\* interactive call and a refresh with a proof-of-possession token), sub1
\* (ADFS) and the empty id of a refresh that returns no id_token
OverlapArgs ==
    {AssembleCall(OverlapResponse("idt.n1", "ci1", BEARER), AadAuthority, "", "", << >>,
                  << <<"r">> >>, 0),
     [AssembleCall(OverlapResponse("idt.n1", "ci1", POP), AadAuthority, "GET", "uri1",
                   << >>, << <<"r">> >>, 0) EXCEPT !.handlingRefreshTokenResponse = TRUE],
     AssembleCall(OverlapResponse("idt.n1", "", BEARER), AdfsAuthority, "", "", << >>,
                  << <<"r">> >>, 0),
     [AssembleCall(OverlapResponse("", "", BEARER), AadAuthority, "", "", << >>,
                   << <<"r">> >>, 0) EXCEPT !.handlingRefreshTokenResponse = TRUE]}

InitOverlap ==
    /\ calls \in {[c \in Calls |-> NewCall(f[c])] : f \in [Calls -> OverlapArgs]}
    /\ persistencePlugin \in BOOLEAN
    /\ serializableCache = TRUE
    /\ homeAccountIdentifier = << >>
    /\ store \in {[accounts |-> a, credentials |-> {}] : a \in {{}, AccountKeys}}
    /\ args = CHOOSE a \in CallArgs : TRUE
    /\ pc = "idle"
    /\ idTokenObj = None
    /\ requestStateObj = None
    /\ cacheRecord = None
    /\ cacheContext = FALSE
    /\ completion = "normal"
    /\ outcome = "none"
    /\ result = None
    /\ removals = 0
    /\ log = << >>
    /\ authCodeResponse = NoAuthCodeResponse
    /\ authCodeCachedState = << >>
    /\ authCodeOutcome = "none"
    /\ tokenResponse = NoTokenResponse
    /\ tokenResponseOutcome = NoTokenResponseOutcome

NextOverlap ==
    \E c \in Calls :
        \/ OverlapEnter(c)
        \/ OverlapBeforeCacheAccessDone(c)
        \/ OverlapAfterCacheAccessDone(c)
        \/ OverlapSignPopTokenDone(c)

SpecOverlap == InitOverlap /\ [][NextOverlap]_vars

----------------------------------------------------------------------------
(* validateTokenResponse applied to token responses *)

OptionalStrings(values) == {None} \cup {Some(v) : v \in values}

TokenErrorResponses ==
    [error             : OptionalStrings({"", "interaction_required", "invalid_grant"}),
     error_description : OptionalStrings({"", "desc1"}),
     suberror          : OptionalStrings({"message_only", "bad_token"}),
     error_codes       : {None, Some(<<50076>>), Some(<<50076, 50079>>)},
     timestamp         : OptionalStrings({"ts1"}),
     correlation_id    : OptionalStrings({"corr1"}),
     trace_id          : OptionalStrings({"trace1"})]

\* the call of validateTokenResponse
ValidateTokenResponse ==
    /\ tokenResponseOutcome = NoTokenResponseOutcome
    /\ tokenResponseOutcome' = validateTokenResponse(tokenResponse)
    /\ UNCHANGED <<tokenResponse, hvars, avars, ovars>>

InitTokenResponse ==
    /\ tokenResponse \in TokenErrorResponses
    /\ tokenResponseOutcome = NoTokenResponseOutcome
    /\ authCodeResponse = NoAuthCodeResponse
    /\ authCodeCachedState = << >>
    /\ authCodeOutcome = "none"
    /\ calls = NoCalls
    /\ persistencePlugin = FALSE
    /\ serializableCache = FALSE
    /\ homeAccountIdentifier = << >>
    /\ args = CHOOSE a \in CallArgs : TRUE
    /\ pc = "idle"
    /\ idTokenObj = None
    /\ requestStateObj = None
    /\ cacheRecord = None
    /\ cacheContext = FALSE
    /\ completion = "normal"
    /\ outcome = "none"
    /\ result = None
    /\ store = [accounts |-> {}, credentials |-> {}]
    /\ removals = 0
    /\ log = << >>

NextTokenResponse == ValidateTokenResponse

SpecTokenResponse == InitTokenResponse /\ [][NextTokenResponse]_vars

----------------------------------------------------------------------------
(* Properties of handleServerTokenResponse, under specification Spec *)

\* the positions in the log of the events named ev
At(ev) == {i \in DOMAIN log : log[i].ev = ev}
Count(ev) == Cardinality(At(ev))
\* the positions of the call's store reads and writes
StoreAccesses == At("getAccount") \cup At("saveCacheRecord")
Done == pc = "done"
\* the call got as far as the commit step (the try block)
ReachedCommit == IsSome(cacheRecord)
\* the call is a guarded one: a refresh whose record carries an account
Guarded ==
    /\ ReachedCommit
    /\ args.handlingRefreshTokenResponse
    /\ IsSome(Get(cacheRecord).account)
RecordKey == GenerateAccountKey(Get(Get(cacheRecord).account))

\* C1: in every finished call in which beforeCacheAccess was invoked,
\* afterCacheAccess was invoked exactly once and has completed, whether the
\* store write succeeded, threw, or was skipped by the refresh-race no-op;
\* it is never invoked twice.
C1_AfterHookExactlyOnce ==
    /\ Count("afterCacheAccess") <= 1
    /\ (Done /\ Count("beforeCacheAccess") >= 1)
         => (Count("afterCacheAccess") = 1 /\ Count("afterCacheAccess.done") = 1)

\* a finished call whose store write threw after the before hook had run
C1_Witness ==
    /\ Done
    /\ outcome = "StoreWriteFailed"
    /\ Count("beforeCacheAccess") = 1
    /\ Count("afterCacheAccess") = 1

\* C2: within one call, beforeCacheAccess has completed before any
\* getAccount or saveCacheRecord; the getAccount of the race guard comes
\* before saveCacheRecord; afterCacheAccess starts only once the write attempt
\* is over (it succeeded, it threw, or the race guard skipped it), and no store
\* access follows it.
C2_HookAndStoreOrder ==
    /\ \A i \in StoreAccesses : \A b \in At("beforeCacheAccess") :
           \E d \in At("beforeCacheAccess.done") : b < d /\ d < i
    /\ \A g \in At("getAccount") : \A w \in At("saveCacheRecord") : g < w
    /\ \A a \in At("afterCacheAccess") :
           /\ \A i \in StoreAccesses : i < a
           /\ \/ \E w \in At("saveCacheRecord") : w < a
              \/ \E g \in At("getAccount") : g < a /\ ~log[g].ok

\* a call with all four kinds of event: hook, lookup, write, hook
C2_Witness ==
    /\ Done
    /\ Count("beforeCacheAccess.done") = 1
    /\ Count("getAccount") = 1
    /\ Count("saveCacheRecord") = 1
    /\ Count("afterCacheAccess") = 1

\* C3: in a finished refresh call whose record carries an account, the
\* account's key was looked up once; if it was absent, saveCacheRecord was
\* never called and the call returned null; if it was present, saveCacheRecord
\* was called with the record and the call did not return null: it returned a
\* result populated from the record, unless the write or the building of the
\* result threw.
C3_RefreshRaceGuard ==
    (Done /\ Guarded) =>
        /\ Count("getAccount") = 1
        /\ \A g \in At("getAccount") :
            /\ log[g].key = RecordKey
            /\ ~log[g].ok =>
                 /\ Count("saveCacheRecord") = 0
                 /\ outcome = "null"
                 /\ result = None
            /\ log[g].ok =>
                 /\ Count("saveCacheRecord") = 1
                 /\ outcome \in {"result", "StoreWriteFailed",
                                 "ResourceRequestParametersRequired"}
                 /\ outcome = "StoreWriteFailed"
                      <=> \E w \in At("saveCacheRecord") : ~log[w].ok
                 /\ outcome = "ResourceRequestParametersRequired"
                      <=> /\ \E w \in At("saveCacheRecord") : log[w].ok
                          /\ PopParametersMissing(Get(cacheRecord),
                                                  args.resourceRequestMethod,
                                                  args.resourceRequestUri)
                 /\ outcome = "result" =>
                      /\ IsSome(result)
                      /\ Get(result).account =
                             Some(GetAccountInfo(Get(Get(cacheRecord).account)))
                      /\ Get(result).idToken = args.serverTokenResponse.id_token
                 /\ (removals = 0 /\ \E w \in At("saveCacheRecord") : log[w].ok) =>
                      /\ RecordKey \in store.accounts
                      /\ CredentialsOf(Get(cacheRecord)) \subseteq store.credentials

\* a refresh call that found its account missing and returned null
C3_Witness ==
    /\ Done
    /\ Guarded
    /\ outcome = "null"
    /\ \E g \in At("getAccount") : ~log[g].ok
    /\ Count("saveCacheRecord") = 0

\* C4 as the specification states it: once a guarded refresh call has finished, an account that
\* another caller removed is not in the store, whenever the removal happened.
C4_RemovalNeverUndone ==
    (Done /\ Guarded /\ \E r \in At("removeAccount") : log[r].key = RecordKey)
        => RecordKey \notin store.accounts

\* C4 as amended: the removal is undone only when it falls between the race
\* guard's lookup and the write. If the finished guarded call's account is in
\* the store although it was removed, every removal of it lies after the
\* getAccount that found it and before the saveCacheRecord that wrote it back.
C4_RemovalUndoneOnlyInWindow ==
    (Done /\ Guarded /\ RecordKey \in store.accounts) =>
        \A r \in At("removeAccount") :
            log[r].key = RecordKey =>
                /\ \E g \in At("getAccount") : g < r /\ log[g].ok
                /\ \E w \in At("saveCacheRecord") : r < w /\ log[w].ok

\* a removal before the lookup: the call returned null and the account stays
\* removed
C4_Witness ==
    /\ Done
    /\ Guarded
    /\ outcome = "null"
    /\ RecordKey \notin store.accounts
    /\ \E r \in At("removeAccount") : \E g \in At("getAccount") :
           log[r].key = RecordKey /\ r < g

\* C5: a call that failed with NonceMismatch, InvalidCacheEnvironment or
\* ClientInfoEmptyError has called neither getAccount nor saveCacheRecord nor
\* a persistence hook, and nothing of it is in the store.
C5_EarlyFailureTouchesNothing ==
    outcome \in {"NonceMismatch", "InvalidCacheEnvironment", "ClientInfoEmptyError"} =>
        /\ \A i \in DOMAIN log : log[i].ev = "removeAccount"
        /\ ~cacheContext
        /\ store.credentials = {}
        /\ cacheRecord = None

\* a call with persistence enabled that failed in the assembly
C5_Witness ==
    /\ Done
    /\ outcome = "ClientInfoEmptyError"
    /\ persistencePlugin /\ serializableCache

C7_PluginMeansBeforeHook ==
    persistencePlugin =>
        /\ ReachedCommit => Count("beforeCacheAccess") = 1
        /\ \A i \in StoreAccesses : \E d \in At("beforeCacheAccess.done") : d < i

\* C7 as amended: with a persistence plugin and a serializable cache both
\* configured, a call that reached the commit step has invoked
\* beforeCacheAccess, and the hook completed before every store access.
C7_PluginAndCacheMeanBeforeHook ==
    (persistencePlugin /\ serializableCache) =>
        /\ ReachedCommit => Count("beforeCacheAccess") = 1
        /\ \A i \in StoreAccesses : \E d \in At("beforeCacheAccess.done") : d < i

\* a store write in a call with plugin and serializable cache
C7_Witness ==
    /\ persistencePlugin /\ serializableCache
    /\ Count("beforeCacheAccess.done") = 1
    /\ \E w \in At("saveCacheRecord") : log[w].ok

\* C8 as the specification states it: the call fails with NonceMismatch only when a cached nonce
\* was supplied and the claims carry a nonce and the two differ.
C8_NonceMismatchNeedsBothNonces ==
    outcome = "NonceMismatch" =>
        /\ args.cachedNonce # ""
        /\ ExtractTokenClaims(args.serverTokenResponse.id_token).nonce # ""
        /\ ExtractTokenClaims(args.serverTokenResponse.id_token).nonce # args.cachedNonce

\* C8 as amended: a finished call failed with NonceMismatch exactly when the
\* response has an id_token, a cached nonce was supplied and the claims' nonce
\* is not that nonce, a token with no nonce claim included; without a cached
\* nonce the check never fails.
C8_NonceMismatchIffNotEqual ==
    Done =>
        (outcome = "NonceMismatch" <=>
            /\ args.serverTokenResponse.id_token # ""
            /\ args.cachedNonce # ""
            /\ ExtractTokenClaims(args.serverTokenResponse.id_token).nonce
                   # args.cachedNonce)

\* a token without nonce claim refused because a cached nonce was supplied
C8_Witness ==
    /\ outcome = "NonceMismatch"
    /\ args.cachedNonce # ""
    /\ ExtractTokenClaims(args.serverTokenResponse.id_token).nonce = ""

----------------------------------------------------------------------------
(* Properties of validateServerAuthorizationCodeResponse, under
   specification SpecAuthCode *)

Validated == authCodeOutcome # "none"
BothStatesPresent == authCodeResponse.state # << >> /\ authCodeCachedState # << >>
\* both states can be URL-decoded
BothStatesDecode ==
    /\ DecodeURIComponent(authCodeResponse.state).error = ""
    /\ DecodeURIComponent(authCodeCachedState).error = ""
DecodedStatesEqual ==
    DecodeURIComponent(authCodeResponse.state).value
        = DecodeURIComponent(authCodeCachedState).value
\* nothing but the states can make the validation fail
OtherwiseValid ==
    /\ authCodeResponse.error = ""
    /\ authCodeResponse.error_description = ""
    /\ authCodeResponse.suberror = ""
    /\ ClientInfoDecodes(authCodeResponse.client_info)

\* C9: for every pair of a response state and a cached state, the validation
\* fails with the state-not-found error (StateMissing) if either is empty;
\* fails with StateMismatch if both are present and differ after URL-decoding;
\* and, both present and equal after URL-decoding, does not fail on the
\* states, and succeeds when the response is otherwise valid.
C9_StateValidation ==
    Validated =>
        /\ ~BothStatesPresent => authCodeOutcome = "StateNotFound"
        /\ (BothStatesPresent /\ BothStatesDecode /\ ~DecodedStatesEqual)
             => authCodeOutcome = "StateMismatch"
        /\ (BothStatesPresent /\ BothStatesDecode /\ DecodedStatesEqual)
             => /\ authCodeOutcome \notin {"StateNotFound", "StateMismatch", "URIError"}
                /\ OtherwiseValid => authCodeOutcome = "ok"

\* two states that are equal only once decoded, accepted
C9_Witness ==
    /\ authCodeOutcome = "ok"
    /\ authCodeResponse.state # authCodeCachedState
    /\ BothStatesPresent

\* C10 as the specification states it: a response that carries an error and whose two states are
\* both present (and decodable) fails with InteractionRequired or ServerError,
\* as the classification predicate says, whatever the state comparison gives.
C10_ErrorBeforeStateComparison ==
    (Validated /\ CarriesError(authCodeResponse) /\ BothStatesPresent /\ BothStatesDecode)
        => authCodeOutcome =
               IF IsInteractionRequiredError(authCodeResponse.error,
                                             authCodeResponse.error_description,
                                             authCodeResponse.suberror)
               THEN "InteractionRequired" ELSE "ServerError"

\* C10 as amended: a response that carries an error fails with
\* InteractionRequired or ServerError, as the classification predicate says,
\* when its two states are both present and equal after URL-decoding; the
\* error check is reached only after the state comparison has passed: with
\* states that differ the response fails with StateMismatch, and with a state
\* missing it fails with the state-not-found error.
C10_ErrorAfterStateComparison ==
    /\ (Validated /\ CarriesError(authCodeResponse)) =>
        /\ ~BothStatesPresent => authCodeOutcome = "StateNotFound"
        /\ (BothStatesPresent /\ BothStatesDecode /\ ~DecodedStatesEqual)
             => authCodeOutcome = "StateMismatch"
        /\ (BothStatesPresent /\ BothStatesDecode /\ DecodedStatesEqual)
             => authCodeOutcome =
                    IF IsInteractionRequiredError(authCodeResponse.error,
                                                  authCodeResponse.error_description,
                                                  authCodeResponse.suberror)
                    THEN "InteractionRequired" ELSE "ServerError"
    /\ authCodeOutcome \in {"InteractionRequired", "ServerError"} =>
        /\ CarriesError(authCodeResponse)
        /\ BothStatesPresent /\ BothStatesDecode /\ DecodedStatesEqual

\* a response with an interaction-required error refused for its state
C10_Witness ==
    /\ authCodeOutcome = "StateMismatch"
    /\ authCodeResponse.error = "interaction_required"

----------------------------------------------------------------------------
(* Properties of validateTokenResponse, under specification
   SpecTokenResponse *)

TokenValidated == tokenResponseOutcome # NoTokenResponseOutcome
\* an error field of the response is present: it holds a non-empty string
Present(field) == field # None /\ field # Some("")
CarriesTokenError ==
    \/ Present(tokenResponse.error)
    \/ Present(tokenResponse.error_description)
    \/ Present(tokenResponse.suberror)
\* the classification predicate matches the response
TokenErrorClassified ==
    IsInteractionRequiredError(StringOf(tokenResponse.error),
                               StringOf(tokenResponse.error_description),
                               StringOf(tokenResponse.suberror))
\* the slot of the message holds the value of the field when the response
\* has the field
SlotHolds(slot, field) == IsSome(field) => slot = Get(field)

\* C11: validateTokenResponse succeeds if and only if none of error,
\* error_description and suberror is present; otherwise it fails with
\* InteractionRequired carrying the three fields when the classification
\* predicate matches, and in every other case with ServerError, carrying the
\* response's error and the message "{error_codes} - [{timestamp}]:
\* {error_description} - Correlation ID: {correlation_id} - Trace ID:
\* {trace_id}" with the response's own field values in the slots.
C11_TokenResponseValidation ==
    TokenValidated =>
        LET out == tokenResponseOutcome
        IN  /\ out.kind = "ok" <=> ~CarriesTokenError
            /\ out.kind = "InteractionRequired" <=> (CarriesTokenError /\ TokenErrorClassified)
            /\ out.kind = "ServerError" <=> (CarriesTokenError /\ ~TokenErrorClassified)
            /\ out.kind = "InteractionRequired" =>
                   /\ out.error = tokenResponse.error
                   /\ out.description = tokenResponse.error_description
                   /\ out.suberror = tokenResponse.suberror
            /\ out.kind = "ServerError" =>
                   /\ out.error = tokenResponse.error
                   /\ Len(out.message) = 9
                   /\ <<out.message[2], out.message[4], out.message[6], out.message[8]>>
                        = <<" - [", "]: ", " - Correlation ID: ", " - Trace ID: ">>
                   /\ IsSome(tokenResponse.error_codes) =>
                          SelectSeq(out.message[1], LAMBDA x : x # ",")
                            = [i \in DOMAIN Get(tokenResponse.error_codes) |->
                                   ToString(Get(tokenResponse.error_codes)[i])]
                   /\ SlotHolds(out.message[3], tokenResponse.timestamp)
                   /\ SlotHolds(out.message[5], tokenResponse.error_description)
                   /\ SlotHolds(out.message[7], tokenResponse.correlation_id)
                   /\ SlotHolds(out.message[9], tokenResponse.trace_id)

\* a response without error code, with a description and all the diagnostic
\* fields, failed with ServerError
C11_Witness ==
    /\ tokenResponseOutcome.kind = "ServerError"
    /\ ~Present(tokenResponse.error)
    /\ tokenResponse.error_description = Some("desc1")
    /\ tokenResponse.error_codes = Some(<<50076, 50079>>)
    /\ tokenResponse.correlation_id = Some("corr1")
    /\ tokenResponse.trace_id = Some("trace1")
    /\ tokenResponse.timestamp = Some("ts1")

----------------------------------------------------------------------------
(* Properties of generateCacheRecord and generateAuthenticationResult, under
   specification SpecAssemble *)

Response == args.serverTokenResponse
\* generateCacheRecord has been called: it returned a record or threw
AssemblyOver == pc # "idle"
\* the home account id of the call, from its own arguments
OwnHomeAccountId(a) ==
    GenerateHomeAccountId(a.serverTokenResponse.client_info, a.authority.authorityType,
                          IdTokenObjOf(a.serverTokenResponse))

\* C12: account derivation for a response with a non-empty id_token (and an
\* authority that has an environment). With an ADFS authority it succeeds
\* with a generic account, whether or not client_info is present; with a
\* directory-backed authority (protocol mode AAD, not ADFS) and an empty
\* client_info it fails with ClientInfoEmptyError; with a non-empty
\* client_info the account is derived from client_info and the claims.
C12_AccountDerivation ==
    (AssemblyOver /\ Response.id_token # "" /\ args.authority.hostname # "") =>
        LET claims == ExtractTokenClaims(Response.id_token)
        IN  /\ args.authority.authorityType = ADFS =>
                   /\ ReachedCommit
                   /\ IsSome(Get(cacheRecord).account)
                   /\ Get(Get(cacheRecord).account).generic
                   /\ Get(Get(cacheRecord).account).clientInfo = ""
                   /\ Get(Get(cacheRecord).account).realm = claims.tid
            /\ (/\ args.authority.authorityType # ADFS
                /\ args.authority.protocolMode = AAD
                /\ Response.client_info = "") =>
                   /\ outcome = "ClientInfoEmptyError"
                   /\ cacheRecord = None
            /\ (args.authority.authorityType # ADFS /\ Response.client_info # "") =>
                   /\ ReachedCommit
                   /\ IsSome(Get(cacheRecord).account)
                   /\ ~Get(Get(cacheRecord).account).generic
                   /\ Get(Get(cacheRecord).account).clientInfo = Response.client_info
                   /\ Get(Get(cacheRecord).account).realm = claims.tid

\* an ADFS authority and a response without client_info gave a generic account
C12_Witness ==
    /\ ReachedCommit
    /\ Response.id_token # ""
    /\ Response.client_info = ""
    /\ args.authority.authorityType = ADFS
    /\ IsSome(Get(cacheRecord).account)
    /\ Get(Get(cacheRecord).account).generic

\* the time the lifetimes of the access token are counted from
ExpiryBase == IF args.cachedState # << >> THEN args.cachedState[1] ELSE args.now

\* C13: for every response with a non-empty access_token, the expiration of
\* the access-token record is T + expires_in and its extended expiration is
\* T + expires_in + ext_expires_in (0 standing for an absent ext_expires_in),
\* T being the timestamp of the library state when the call has one and the
\* current time in seconds otherwise.
C13_Expiration ==
    (ReachedCommit /\ Response.access_token # "") =>
        /\ IsSome(Get(cacheRecord).accessToken)
        /\ Get(Get(cacheRecord).accessToken).expiresOn = ExpiryBase + Response.expires_in
        /\ Get(Get(cacheRecord).accessToken).extendedExpiresOn
             = ExpiryBase + Response.expires_in + Response.ext_expires_in

\* a library state with timestamp 2 while the current time is 0: lifetimes of
\* 1 and 2 seconds give expirations 3 and 5
C13_Witness ==
    /\ ReachedCommit
    /\ args.cachedState = <<2, "user1">>
    /\ args.now = 0
    /\ Response.expires_in = 1
    /\ Response.ext_expires_in = 2
    /\ IsSome(Get(cacheRecord).accessToken)
    /\ Get(Get(cacheRecord).accessToken).expiresOn = 3
    /\ Get(Get(cacheRecord).accessToken).extendedExpiresOn = 5

\* C14: in every cache record returned by generateCacheRecord the id-token
\* record and the account are present together, and only when id_token is
\* non-empty and the claims were parsed; the access-token record is present
\* only when access_token is non-empty, the refresh-token record only when
\* refresh_token is non-empty, the app-metadata record only when foci is
\* non-empty.
C14_EntitiesOnlyFromFields ==
    ReachedCommit =>
        LET record == Get(cacheRecord)
        IN  /\ IsSome(record.idToken) <=> IsSome(record.account)
            /\ IsSome(record.idToken) => (Response.id_token # "" /\ IsSome(idTokenObj))
            /\ IsSome(record.accessToken) => Response.access_token # ""
            /\ IsSome(record.refreshToken) => Response.refresh_token # ""
            /\ IsSome(record.appMetadata) => Response.foci # ""

\* a response with an access token and a foci only: its record has the
\* access-token record and the app-metadata record and nothing else
C14_Witness ==
    /\ ReachedCommit
    /\ Response.id_token = ""
    /\ Response.refresh_token = ""
    /\ Response.access_token # ""
    /\ Response.foci # ""
    /\ Get(cacheRecord).idToken = None
    /\ Get(cacheRecord).account = None
    /\ Get(cacheRecord).refreshToken = None
    /\ IsSome(Get(cacheRecord).accessToken)
    /\ IsSome(Get(cacheRecord).appMetadata)

\* the result was built: the try statement was left normally
ResultStageOver == Done /\ ReachedCommit /\ completion = "normal"

\* C16: generateAuthenticationResult for a record whose access token has the
\* proof-of-possession token type fails with
\* ResourceRequestParametersRequired, the signer not being called, when the
\* resource method or the resource URI is missing; when both are supplied
\* the accessToken of the result is what the signer gives for the stored
\* secret, the method and the URI, and not the stored secret. For every other
\* token type the accessToken of the result is the stored secret verbatim.
C16_PopAccessToken ==
    (ResultStageOver /\ IsSome(Get(cacheRecord).accessToken)) =>
        LET at == Get(Get(cacheRecord).accessToken)
            method == args.resourceRequestMethod
            uri == args.resourceRequestUri
        IN  /\ at.secret = Response.access_token
            /\ (at.tokenType = POP /\ (method = "" \/ uri = "")) =>
                   /\ outcome = "ResourceRequestParametersRequired"
                   /\ result = None
                   /\ Count("signPopToken") = 0
            /\ (at.tokenType = POP /\ method # "" /\ uri # "") =>
                   /\ outcome = "result"
                   /\ Count("signPopToken") = 1
                   /\ Get(result).accessToken = SignPopToken(at.secret, method, uri)
                   /\ Get(result).accessToken # <<at.secret>>
            /\ at.tokenType # POP =>
                   /\ outcome = "result"
                   /\ Count("signPopToken") = 0
                   /\ Get(result).accessToken = <<at.secret>>

\* a proof-of-possession token with method and URI was signed
C16_Witness ==
    /\ Done
    /\ outcome = "result"
    /\ Response.token_type = POP
    /\ args.resourceRequestMethod = "GET"
    /\ args.resourceRequestUri = "uri1"
    /\ Count("signPopToken") = 1
    /\ Get(result).accessToken = <<"signed", "at1", "GET", "uri1">>

\* C17: the familyId of every authentication result is the family sentinel
\* "1" or empty: the sentinel exactly when the record has app metadata whose
\* familyId is the sentinel, and empty for any other non-empty familyId and
\* when the record has no app metadata.
C17_FamilyIdSentinelOnly ==
    (Done /\ outcome = "result") =>
        LET metadata == Get(cacheRecord).appMetadata
        IN  /\ Get(result).familyId \in {"1", ""}
            /\ Get(result).familyId = "1" <=>
                   (IsSome(metadata) /\ Get(metadata).familyId = "1")

\* app metadata with the family id "2" gave a result with an empty familyId
C17_Witness ==
    /\ Done
    /\ outcome = "result"
    /\ IsSome(Get(cacheRecord).appMetadata)
    /\ Get(Get(cacheRecord).appMetadata).familyId = "2"
    /\ Get(result).familyId = ""

\* The scopes of a scope string, in order: the pieces between its spaces.
WordStarts(str) == {i \in DOMAIN str : str[i] # " " /\ (i = 1 \/ str[i - 1] = " ")}
WordEnd(str, i) ==
    CHOOSE j \in i..Len(str) :
        /\ \A k \in i..j : str[k] # " "
        /\ (j = Len(str) \/ str[j + 1] = " ")
NthOf(set, n) == CHOOSE x \in set : Cardinality({y \in set : y < x}) = n - 1
ScopeFieldWords(str) ==
    [n \in 1..Cardinality(WordStarts(str)) |->
        SubSeq(str, NthOf(WordStarts(str), n), WordEnd(str, NthOf(WordStarts(str), n)))]

\* the scopes of the response when it has a scope field, of the request otherwise
ExpectedScopes ==
    IF Response.scope # << >> THEN ScopeFieldWords(Response.scope) ELSE args.requestScopes

\* C18 as the specification states it: for every token response, the result
\* built from the cache record assembled from the response has scopes equal,
\* as an ordered sequence, to the scope field of the response when it has one
\* and to the request scopes otherwise, and an idToken equal to the raw
\* id_token of the response.
C18_RoundTripEveryResponse ==
    (Done /\ outcome = "result") =>
        /\ Get(result).scopes = ExpectedScopes
        /\ Get(result).idToken = Response.id_token

\* C18 as amended: the scopes of the result are those of the response (of
\* the request when the response has no scope field) for every response with
\* a non-empty access_token; the result of a response without access_token
\* has no scopes. The idToken of the result is the raw id_token of the
\* response in either case.
C18_RoundTripWithAccessToken ==
    (Done /\ outcome = "result") =>
        /\ Response.access_token # "" => Get(result).scopes = ExpectedScopes
        /\ Response.access_token = "" => Get(result).scopes = << >>
        /\ Get(result).idToken = Response.id_token

\* a scope string of two scopes came back as these two scopes, not as the
\* scope of the request
C18_Witness ==
    /\ Done
    /\ outcome = "result"
    /\ Response.access_token # ""
    /\ Response.id_token = "idt.nononce"
    /\ Response.scope = <<"w", " ", "r">>
    /\ args.requestScopes = << <<"r">> >>
    /\ Get(result).scopes = << <<"w">>, <<"r">> >>
    /\ Get(result).idToken = "idt.nononce"

----------------------------------------------------------------------------
(* Properties of overlapping calls, under specification SpecOverlap *)

\* the home account ids carried by the entities of a cache record
HomeAccountIdsOf(record) ==
    {Get(record.account).homeAccountId : x \in IF IsSome(record.account) THEN {1} ELSE {}}
    \cup {Get(record.idToken).homeAccountId :
              x \in IF IsSome(record.idToken) THEN {1} ELSE {}}
    \cup {Get(record.accessToken).homeAccountId :
              x \in IF IsSome(record.accessToken) THEN {1} ELSE {}}
    \cup {Get(record.refreshToken).homeAccountId :
              x \in IF IsSome(record.refreshToken) THEN {1} ELSE {}}

\* C15: every entity of the cache record of a call (account, id-token,
\* access-token and refresh-token record) carries the home account id
\* computed from the arguments of that same call, also when calls on the same
\* instance overlap at their suspension points: the value another call left
\* in the shared field homeAccountIdentifier never gets into the record.
C15_NoHomeAccountIdLeak ==
    \A c \in DOMAIN calls :
        IsSome(calls[c].cacheRecord) =>
            HomeAccountIdsOf(Get(calls[c].cacheRecord)) = {OwnHomeAccountId(calls[c].args)}

\* call 1 is suspended in beforeCacheAccess while call 2, which has another
\* home account id, has started and overwritten the shared field
C15_Witness ==
    /\ calls # NoCalls
    /\ calls[1].pc = "before"
    /\ IsSome(calls[1].cacheRecord)
    /\ IsSome(calls[2].cacheRecord)
    /\ OwnHomeAccountId(calls[1].args) # OwnHomeAccountId(calls[2].args)
    /\ homeAccountIdentifier = OwnHomeAccountId(calls[2].args)
    /\ HomeAccountIdsOf(Get(calls[1].cacheRecord)) = {OwnHomeAccountId(calls[1].args)}

----------------------------------------------------------------------------
(* Further properties of handleServerTokenResponse, under specification
   Spec *)

\* C19: the call returns null if and only if it handles a refresh-token
\* response, its record carries an account and getAccount found the key of
\* that account absent. A call that reaches the commit step in any other
\* case (not a refresh, or a record without account) looks no account up and
\* calls saveCacheRecord, whether or not the account is in the store.
C19_LookupAndNullOnlyWhenGuarded ==
    /\ Done =>
          (outcome = "null" <=>
              (Guarded /\ \E i \in At("getAccount") :
                              log[i].key = RecordKey /\ ~log[i].ok))
    /\ (ReachedCommit /\ ~Guarded) =>
          /\ Count("getAccount") = 0
          /\ pc \notin {"before", "guard", "save"} => Count("saveCacheRecord") = 1

\* a call outside the refresh flow wrote its record, account included,
\* after the account had been removed from the store, and looked nothing up
C19_Witness ==
    /\ Done
    /\ ReachedCommit
    /\ ~args.handlingRefreshTokenResponse
    /\ IsSome(Get(cacheRecord).account)
    /\ Count("getAccount") = 0
    /\ \E i \in At("removeAccount"), j \in At("saveCacheRecord") :
          i < j /\ log[i].key = RecordKey /\ log[j].ok

\* C20: the result is built only after the commit step: a call that fails
\* with ResourceRequestParametersRequired has written its cache record to
\* the store before, and its afterCacheAccess hook has run when persistence
\* is enabled; the store is not left unchanged (the credentials of the
\* record are in it unless another caller has removed them since).
C20_PopErrorAfterCommit ==
    outcome = "ResourceRequestParametersRequired" =>
        /\ ReachedCommit
        /\ \E j \in At("saveCacheRecord") : log[j].ok
        /\ PersistenceEnabled =>
               \E j \in At("saveCacheRecord"), k \in At("afterCacheAccess.done") : j < k
        /\ removals = 0 =>
               /\ CredentialsOf(Get(cacheRecord)) # {}
               /\ CredentialsOf(Get(cacheRecord)) \subseteq store.credentials

\* a call with persistence enabled failed for want of the resource method
\* and left the credentials of its record in the store
C20_Witness ==
    /\ Done
    /\ outcome = "ResourceRequestParametersRequired"
    /\ PersistenceEnabled
    /\ args.resourceRequestMethod = ""
    /\ removals = 0
    /\ store.credentials # {}
    /\ Count("afterCacheAccess.done") = 1

====
